---- MODULE Spec2Model ----
(***************************************************************************)
(* Linux-Disk-Birlestirici: the operation controller (DiskDefragmenterApp), *)
(* its two background QThreads (CheckDefragWorker, DefragWorker), the      *)
(* external e4defrag process they drive, and the score parser.             *)
(*                                                                         *)
(* The foreground (GUI) thread runs one handler at a time.  A handler that *)
(* opens a QMessageBox blocks in a nested event loop: it is suspended on   *)
(* the stack `dialogs` and continues when its dialog is answered.  While a *)
(* dialog is open, queued signals of the workers are still delivered (the  *)
(* nested loop processes them), user input to the main window is not.      *)
(* Worker threads interleave with the foreground at every step that reads  *)
(* or writes shared state.                                                 *)
(***************************************************************************)
EXTENDS Integers, Sequences, FiniteSets, TLC

\* ---------------------------------------------------------------- bounds
\* Background tasks started in one run of the program.
MaxTasks == 2
\* The drawable area of the disk map while tasks run (two cells).
MapWidth == 20
MapHeight == 10
\* Lines of analyzer output fed to the Score Parser.
MaxLines == 3

\* ----------------------------------------------------- program constants
\* range(10): the synthetic progress steps of DefragWorker.run.
ProgressSteps == 10
\* The score DefragWorker.run forces before launching e4defrag.
HighSeverityScore == 90
\* The "unknown" score.
UnknownScore == -1
\* DiskMapWidget.block_size: the edge of a cell.
block_size == 10

\* ------------------------------------------------------------ score parser
\* A line of e4defrag's stdout is a sequence of tokens: a run of digits is the
\* number it spells (>= 0); the other tokens are coded by negative numbers.
FS == -1    \* the text "Fragmentation score"
SP == -2    \* a run of whitespace
NF == -3    \* the text "No fragmentation found"
TX == -4    \* any other text
BIG == -6   \* a run of more digits than int() converts (ValueError)
NoMatch == -5   \* re.search(...) returned None

IsDigits(tok) == tok >= 0 \/ tok = BIG

\* "Fragmentation score" in line
HasScoreMarker(line) == \E p \in 1..Len(line) : line[p] = FS

\* "No fragmentation found" in line
HasNoFragMarker(line) == \E p \in 1..Len(line) : line[p] = NF

\* The token that follows position p once \s* has consumed the whitespace.
RECURSIVE AfterSpace(_, _)
AfterSpace(line, p) ==
    IF p > Len(line) THEN TX
    ELSE IF line[p] = SP THEN AfterSpace(line, p + 1)
    ELSE line[p]

\* re.search(r'Fragmentation score\s*(\d+)', line): the leftmost marker that
\* is followed by optional whitespace and digits; int(match.group(1)).
RECURSIVE SearchFrom(_, _)
SearchFrom(line, p) ==
    IF p > Len(line) THEN NoMatch
    ELSE IF line[p] = FS /\ IsDigits(AfterSpace(line, p + 1))
         THEN AfterSpace(line, p + 1)
         ELSE SearchFrom(line, p + 1)

ScoreMatch(line) == SearchFrom(line, 1)

\* One iteration of the loop over the lines: st = <<score, found_score_line>>.
ScanLine(st, line) ==
    LET m == ScoreMatch(line)
        st1 == IF HasScoreMarker(line) /\ m # NoMatch THEN <<m, TRUE>> ELSE st
    IN  IF HasNoFragMarker(line) /\ ~st1[2] THEN <<0, st1[2]>> ELSE st1

RECURSIVE ScanLines(_, _, _)
ScanLines(st, lines, k) ==
    IF k > Len(lines) THEN st
    ELSE ScanLines(ScanLine(st, lines[k]), lines, k + 1)

\* The score CheckDefragWorker.run computes from stdout.splitlines().
ParseScore(lines) == ScanLines(<<UnknownScore, FALSE>>, lines, 1)[1]

\* int(match.group(1)) raises ValueError on some line, which ends the loop.
ParseRaises(lines) == \E k \in 1..Len(lines) : ScoreMatch(lines[k]) = BIG

\* The analyzer outputs the model feeds to an Analysis Task.
ScoreLine(n) == <<SP, FS, SP, n>>
NoFragLine == <<TX, NF>>
Stdouts ==
    { << >>,
      << NoFragLine >>,
      << ScoreLine(62) >>,
      << ScoreLine(150), NoFragLine >>,
      << <<FS, BIG>> >> }

\* -------------------------------------------------------------- devices
\* The device lists the model starts from (self.disks as filesystem types):
\* none, an eligible device first, an ineligible device first.
DiskLists == { << >>, <<"ext4", "vfat">>, <<"vfat", "ext4">> }

VARIABLES
    app,            \* "running" | "closed" (close accepted) | "aborted"
    mainpc,         \* foreground: "loop" | "wait_worker" | "wait_check"
    dialogs,        \* stack of handlers suspended on a modal dialog
    queue,          \* queued signals posted to the foreground thread
    disks,          \* self.disks: sequence of filesystem types
    combo_count,    \* number of items of disk_combobox
    current_index,  \* disk_combobox.currentIndex()
    analyze_enabled, defrag_enabled, combo_enabled,
    score,          \* disk_map_widget.fragmentation_score
    worker,         \* self.worker: a thread id, 0 for None
    check_worker,   \* self.check_worker: a thread id, 0 for None
    threads,        \* the QThreads created so far
    width, height,  \* disk_map_widget: width() and height() less the frame lines
    cols, rows,     \* disk_map_widget.cols, .rows
    disk_map_data   \* disk_map_widget.disk_map_data: rows of cell categories

ui == <<analyze_enabled, defrag_enabled, combo_enabled>>
sel == <<disks, combo_count, current_index>>
handles == <<worker, check_worker>>
area == <<width, height>>
map == <<score, cols, rows, disk_map_data>>
vars == <<app, mainpc, dialogs, queue, disks, combo_count, current_index,
          analyze_enabled, defrag_enabled, combo_enabled, score,
          worker, check_worker, threads, width, height, cols, rows,
          disk_map_data>>

\* ---------------------------------------------------------------- helpers
Tids == 1..Len(threads)

\* selected_index == -1 or not self.disks or selected_index >= len(self.disks)
InvalidSelection ==
    current_index = -1 \/ disks = << >> \/ current_index >= Len(disks)

\* self.disks[selected_index]["fstype"] (Python indexes from 0)
SelectedFsType == disks[current_index + 1]

\* QThread.isFinished() / QThread.isRunning()
isFinished(th) == th.pc \in {"done", "raised", "terminated"}
isRunning(th) == ~isFinished(th)

NewThread(k, pre) ==
    [kind |-> k,
     pc |-> IF k = "defrag" THEN "begin" ELSE "popen",
     is_running |-> TRUE,
     i |-> 0,
     process |-> FALSE,        \* the local `process` is bound
     returncode |-> -1,        \* process.returncode; -1 stands for None
     ext |-> "none",           \* the external process
     tmp |-> UnknownScore,     \* a score read and not yet written back
     killed |-> FALSE,         \* QThread.terminate() was called
     progress |-> << >>,       \* progress values emitted
     emitted |-> << >>,        \* finished / error signals emitted
     pre_score |-> pre]        \* history: the score when the task was requested

\* A thread object that was deleted: it had ended and the controller had
\* dropped its handle (self.worker = None, self.check_worker replaced).
Deleted ==
    [kind |-> "deleted", pc |-> "done", is_running |-> FALSE, i |-> 0,
     process |-> FALSE, returncode |-> -1, ext |-> "none",
     tmp |-> UnknownScore, killed |-> FALSE, progress |-> << >>,
     emitted |-> << >>, pre_score |-> UnknownScore]

\* The threads ths once every ended thread that neither handle w, cw refers
\* to, and whose outcome is not waiting in q or ds, is deleted.
Collect(ths, w, cw, q, ds) ==
    [t \in DOMAIN ths |->
        IF /\ isFinished(ths[t])
           /\ t \notin {w, cw}
           /\ \A k \in 1..Len(q) : q[k].t # t
           /\ \A k \in 1..Len(ds) : ds[k].t # t
        THEN Deleted ELSE ths[t]]

\* A queued signal of thread t: "finished", or error with one of the
\* messages of the source ("error_status": the exit status was not zero;
\* "error_not_found": FileNotFoundError; "error_unexpected": `except
\* Exception`); s and out are the score and stdout finished(int, str) carries.
Event(sig, t, s, out) == [sig |-> sig, t |-> t, s |-> s, out |-> out]
IsError(sig) == sig \in {"error_status", "error_not_found", "error_unexpected"}
Frame(d, t, s, w, c) == [d |-> d, t |-> t, s |-> s, w |-> w, c |-> c]

Top == dialogs[Len(dialogs)]
Pop == SubSeq(dialogs, 1, Len(dialogs) - 1)
Push(f) == Append(dialogs, f)

\* The foreground can take user input: no modal dialog blocks the window.
Interactive == app = "running" /\ mainpc = "loop" /\ dialogs = << >>
\* The foreground is answering the topmost modal dialog.
InDialog(d) ==
    app = "running" /\ mainpc = "loop" /\ dialogs # << >> /\ Top.d = d

\* --------------------------------------------------------- DiskMapWidget
\* The outcomes of random.shuffle(block_types) the model draws from.
Shuffles == {"keep", "reverse", "rotate"}

Shuffled(bt, how) ==
    LET n == Len(bt) IN
    IF how = "reverse" THEN [k \in 1..n |-> bt[n + 1 - k]]
    ELSE IF how = "rotate" THEN [k \in 1..n |-> bt[(k % n) + 1]]
    ELSE bt

\* [c] * n
Repeat(c, n) == [k \in 1..n |-> c]

\* The ratios of generate_dummy_map_data are multiples of 0.05: a ratio is
\* modelled by its number of twentieths.  int(T * ratio) is the floor of the
\* exact product, except that the double nearest to 0.7 lies below 7/10 and,
\* for the T below, the rounded product lies below the integer 7T/10, so that
\* int() yields one less (int(90 * 0.7) = 62).  No T up to 2,000,000 differs
\* for 0.05, 0.1 or 0.4.
RoundsBelow == {90, 170, 180}
IntOfProduct(T, twentieths) ==
    IF twentieths = 14 /\ T \in RoundsBelow
    THEN (T * 14) \div 20 - 1
    ELSE (T * twentieths) \div 20

\* fragmented_ratio with the ratio of the 31..55 bucket also for s >= 56.
fragmented_ratio_TopBucketLow(s) ==
    IF s = 0 THEN 0
    ELSE IF 1 <= s /\ s <= 30 THEN 2
    ELSE IF 31 <= s THEN 8
    ELSE 0

\* fragmented_ratio for score s, in twentieths.
fragmented_ratio(s) ==
    IF s = 0 THEN 0
    ELSE IF 1 <= s /\ s <= 30 THEN 2
    ELSE IF 31 <= s /\ s <= 55 THEN 8
    ELSE IF s >= 56 THEN 14
    ELSE 0

\* block_types with num_non_fragmented rounded from its own ratio, as the
\* other four counts are.
block_types_RoundedNonFragmented(T, s) ==
    LET num_fragmented == IntOfProduct(T, fragmented_ratio(s))
        num_empty == IntOfProduct(T, 2)
        num_metadata == IntOfProduct(T, 1)
        num_unmovable == IntOfProduct(T, 1)
        num_non_fragmented == IntOfProduct(T, 16 - fragmented_ratio(s))
        bt == Repeat("fragmented", num_fragmented)
                \o Repeat("non_fragmented", num_non_fragmented)
                \o Repeat("empty", num_empty)
                \o Repeat("metadata", num_metadata)
                \o Repeat("unmovable", num_unmovable)
        remaining_blocks == T - Len(bt)
    IN  IF remaining_blocks > 0
        THEN bt \o Repeat("unknown", remaining_blocks)
        ELSE bt

\* block_types before the shuffle, for total_blocks = T and score s.
block_types(T, s) ==
    LET num_fragmented == IntOfProduct(T, fragmented_ratio(s))
        num_empty == IntOfProduct(T, 2)
        num_metadata == IntOfProduct(T, 1)
        num_unmovable == IntOfProduct(T, 1)
        rest == T - num_fragmented - num_empty - num_metadata - num_unmovable
        num_non_fragmented == IF rest < 0 THEN 0 ELSE rest
        bt == Repeat("fragmented", num_fragmented)
                \o Repeat("non_fragmented", num_non_fragmented)
                \o Repeat("empty", num_empty)
                \o Repeat("metadata", num_metadata)
                \o Repeat("unmovable", num_unmovable)
        remaining_blocks == T - Len(bt)
    IN  IF remaining_blocks > 0
        THEN bt \o Repeat("unknown", remaining_blocks)
        ELSE bt

\* generate_dummy_map_data with rows taken from the width and columns from
\* the height.
generate_dummy_map_data_Transposed(W, H, s, how) ==
    IF W <= 0 \/ H <= 0
    THEN [cols |-> 0, rows |-> 0, data |-> << >>]
    ELSE LET c == H \div block_size
             r == W \div block_size
         IN  IF c * r = 0
             THEN [cols |-> c, rows |-> r, data |-> << >>]
             ELSE IF s = UnknownScore
             THEN [cols |-> c, rows |-> r,
                   data |-> Repeat(Repeat("unknown", c), r)]
             ELSE LET bt == Shuffled(block_types(c * r, s), how) IN
                  [cols |-> c, rows |-> r,
                   data |-> [i \in 1..r |-> [j \in 1..c |->
                               IF (i - 1) * c + j <= Len(bt)
                               THEN bt[(i - 1) * c + j]
                               ELSE "unknown"]]]

\* DiskMapWidget.generate_dummy_map_data for the drawable area W x H and the
\* score s, the shuffle turning out as `how`: the new cols, rows and
\* disk_map_data.
generate_dummy_map_data(W, H, s, how) ==
    IF W <= 0 \/ H <= 0
    THEN [cols |-> 0, rows |-> 0, data |-> << >>]
    ELSE LET c == W \div block_size
             r == H \div block_size
         IN  IF c * r = 0
             THEN [cols |-> c, rows |-> r, data |-> << >>]
             ELSE IF s = UnknownScore
             THEN [cols |-> c, rows |-> r,
                   data |-> Repeat(Repeat("unknown", c), r)]
             ELSE LET bt == Shuffled(block_types(c * r, s), how) IN
                  [cols |-> c, rows |-> r,
                   data |-> [i \in 1..r |-> [j \in 1..c |->
                               IF (i - 1) * c + j <= Len(bt)
                               THEN bt[(i - 1) * c + j]
                               ELSE "unknown"]]]

\* The widget takes the grid g.
SetGrid(g) ==
    /\ cols' = g.cols
    /\ rows' = g.rows
    /\ disk_map_data' = g.data

\* DiskMapWidget.set_fragmentation_score
set_fragmentation_score(s) ==
    /\ score' = s
    /\ \E how \in Shuffles :
          SetGrid(generate_dummy_map_data(width, height, s, how))

\* ------------------------------------------------------------------ Init
Init ==
    /\ app = "running"
    /\ mainpc = "loop"
    /\ dialogs = << >>
    /\ queue = << >>
    /\ disks \in DiskLists
    \* populate_disks: one item per disk; a placeholder item when lsblk
    \* lists none; no item at all when lsblk failed.
    /\ combo_count \in IF disks = << >> THEN {0, 1} ELSE {Len(disks)}
    /\ current_index = IF combo_count = 0 THEN -1 ELSE 0
    \* initUI ends with on_disk_selection_changed()
    /\ analyze_enabled = (~InvalidSelection /\ SelectedFsType = "ext4")
    /\ defrag_enabled = FALSE
    /\ combo_enabled = TRUE
    /\ score = UnknownScore
    /\ worker = 0
    /\ check_worker = 0
    /\ threads = << >>
    \* DiskMapWidget.__init__, then the layout gives the widget its size
    /\ width = MapWidth
    /\ height = MapHeight
    /\ cols = generate_dummy_map_data(width, height, UnknownScore, "keep").cols
    /\ rows = generate_dummy_map_data(width, height, UnknownScore, "keep").rows
    /\ disk_map_data =
          generate_dummy_map_data(width, height, UnknownScore, "keep").data



\* ------------------------------------------------- foreground handlers
InvalidIndex(idx) == idx = -1 \/ disks = << >> \/ idx >= Len(disks)

\* on_disk_selection_changed that enables the analysis for every valid
\* selection, whatever its filesystem type.
on_disk_selection_changed_AnyFs(idx) ==
    /\ set_fragmentation_score(UnknownScore)
    /\ IF InvalidIndex(idx)
       THEN analyze_enabled' = FALSE /\ defrag_enabled' = FALSE
       ELSE analyze_enabled' = TRUE /\ defrag_enabled' = FALSE

\* DiskDefragmenterApp.on_disk_selection_changed, for currentIndex() = idx.
\* It leaves self.worker, self.check_worker and the threads alone.
on_disk_selection_changed(idx) ==
    /\ set_fragmentation_score(UnknownScore)
    /\ IF InvalidIndex(idx)
       THEN analyze_enabled' = FALSE /\ defrag_enabled' = FALSE
       ELSE IF disks[idx + 1] = "ext4"
            THEN analyze_enabled' = TRUE /\ defrag_enabled' = FALSE
            ELSE analyze_enabled' = FALSE /\ defrag_enabled' = FALSE

\* The user picks another item of the combobox (currentIndexChanged).
Select(j) ==
    /\ Interactive
    /\ combo_enabled
    /\ j # current_index
    /\ current_index' = j
    /\ on_disk_selection_changed(j)
    /\ UNCHANGED <<app, mainpc, dialogs, queue, disks, combo_count, area,
                   combo_enabled, worker, check_worker, threads>>

\* DiskDefragmenterApp.start_analysis up to its first message box: the
\* click on analyze_button.
start_analysis ==
    /\ Interactive
    /\ analyze_enabled
    /\ Len(threads) < MaxTasks
    /\ IF InvalidSelection \/ SelectedFsType # "ext4"
       THEN /\ dialogs' = Push(Frame("analysis_warning", 0, 0, FALSE, FALSE))
            /\ UNCHANGED ui
       ELSE /\ analyze_enabled' = FALSE
            /\ defrag_enabled' = FALSE
            /\ combo_enabled' = FALSE
            /\ dialogs' = Push(Frame("analysis_starting", 0, 0, FALSE, FALSE))
    /\ UNCHANGED <<app, mainpc, queue, sel, area, map, handles, threads>>

\* start_analysis after "Analiz Baslatiliyor" is dismissed: the
\* CheckDefragWorker is created, connected and started.
start_analysis_launch ==
    /\ InDialog("analysis_starting")
    /\ dialogs' = Pop
    /\ threads' = Collect(Append(threads, NewThread("check", UnknownScore)),
                           worker, Len(threads) + 1, queue, Pop)
    /\ check_worker' = Len(threads) + 1
    /\ UNCHANGED <<app, mainpc, queue, sel, area, ui, map, worker>>

\* A message box after which its handler returns at once: a warning of
\* start_analysis or start_defrag, or start_defrag's confirmation answered No.
handler_returns ==
    /\ app = "running" /\ mainpc = "loop" /\ dialogs # << >>
    /\ Top.d \in {"analysis_warning", "defrag_warning", "defrag_confirm"}
    /\ dialogs' = Pop
    /\ UNCHANGED <<app, mainpc, queue, sel, area, ui, map, handles, threads>>

\* display_defrag_score without its branch for an undeterminable score.
display_defrag_score_NoUnknownBranch(e) ==
    /\ analyze_enabled' = TRUE
    /\ combo_enabled' = TRUE
    /\ defrag_enabled' = TRUE
    /\ dialogs' = Push(Frame("analysis_result", e.t, e.s, FALSE, FALSE))
    /\ UNCHANGED <<app, mainpc, sel, area, map, handles, threads>>

\* DiskDefragmenterApp.display_defrag_score up to its message box: the slot
\* of CheckDefragWorker.finished(score, stdout).
display_defrag_score(e) ==
    /\ analyze_enabled' = TRUE
    /\ combo_enabled' = TRUE
    /\ defrag_enabled' =
         IF e.s = 0 \/ (1 <= e.s /\ e.s <= 30) \/ (31 <= e.s /\ e.s <= 55)
            \/ e.s >= 56
         THEN TRUE ELSE FALSE
    /\ dialogs' = Push(Frame("analysis_result", e.t, e.s, FALSE, FALSE))
    /\ UNCHANGED <<app, mainpc, sel, area, map, handles, threads>>

\* display_defrag_score after "Analiz Sonucu" is dismissed.
display_defrag_score_end ==
    /\ InDialog("analysis_result")
    /\ dialogs' = Pop
    /\ set_fragmentation_score(Top.s)
    /\ UNCHANGED <<app, mainpc, queue, sel, area, ui, handles, threads>>

\* DiskDefragmenterApp.display_defrag_check_error up to its message box: the
\* slot of CheckDefragWorker.error.
display_defrag_check_error(e) ==
    /\ analyze_enabled' = TRUE
    /\ defrag_enabled' = FALSE
    /\ combo_enabled' = TRUE
    /\ dialogs' = Push(Frame("analysis_error", e.t, 0, FALSE, FALSE))
    /\ UNCHANGED <<app, mainpc, sel, area, map, handles, threads>>

\* display_defrag_check_error after the error box is dismissed.
display_defrag_check_error_end ==
    /\ InDialog("analysis_error")
    /\ dialogs' = Pop
    /\ set_fragmentation_score(UnknownScore)
    /\ UNCHANGED <<app, mainpc, queue, sel, area, ui, handles, threads>>

\* start_defrag that disables the controls and announces the start without
\* asking for the confirmation.
start_defrag_NoQuestion ==
    /\ Interactive
    /\ defrag_enabled
    /\ Len(threads) < MaxTasks
    /\ defrag_enabled' = FALSE
    /\ analyze_enabled' = FALSE
    /\ combo_enabled' = FALSE
    /\ dialogs' = Push(Frame("defrag_starting", 0, score, FALSE, FALSE))
    /\ UNCHANGED <<app, mainpc, queue, sel, area, map, handles, threads>>

\* DiskDefragmenterApp.start_defrag up to its first message box: the click
\* on defrag_button.
start_defrag ==
    /\ Interactive
    /\ defrag_enabled
    /\ Len(threads) < MaxTasks
    /\ IF InvalidSelection \/ SelectedFsType # "ext4"
       THEN dialogs' = Push(Frame("defrag_warning", 0, 0, FALSE, FALSE))
       ELSE dialogs' = Push(Frame("defrag_confirm", 0, score, FALSE, FALSE))
    /\ UNCHANGED <<app, mainpc, queue, sel, area, ui, map, handles, threads>>

\* The confirmation of start_defrag is answered Yes.
start_defrag_confirmed ==
    /\ InDialog("defrag_confirm")
    /\ defrag_enabled' = FALSE
    /\ analyze_enabled' = FALSE
    /\ combo_enabled' = FALSE
    /\ dialogs' = Append(Pop, Frame("defrag_starting", 0, Top.s, FALSE, FALSE))
    /\ UNCHANGED <<app, mainpc, queue, sel, area, map, handles, threads>>

\* start_defrag after "Birlestirme Baslatiliyor" is dismissed: the
\* DefragWorker is created, connected and started.
start_defrag_launch ==
    /\ InDialog("defrag_starting")
    /\ dialogs' = Pop
    /\ threads' = Append(threads, NewThread("defrag", Top.s))
    /\ worker' = Len(threads) + 1
    /\ UNCHANGED <<app, mainpc, queue, sel, area, ui, map, check_worker>>

\* DiskDefragmenterApp.defrag_finished / defrag_error up to the message box:
\* the slots of DefragWorker.finished and DefragWorker.error.
defrag_finished(e) ==
    /\ dialogs' = Push(Frame("defrag_done", e.t, 0, FALSE, FALSE))
    /\ UNCHANGED <<app, mainpc, sel, area, ui, map, handles, threads>>

defrag_error(e) ==
    /\ dialogs' = Push(Frame("defrag_failed", e.t, 0, FALSE, FALSE))
    /\ UNCHANGED <<app, mainpc, sel, area, ui, map, handles, threads>>

\* DiskDefragmenterApp.reset_ui: the button writes are overwritten by the
\* trailing on_disk_selection_changed().
reset_ui ==
    /\ combo_enabled' = TRUE
    /\ worker' = 0
    /\ check_worker' = 0
    /\ on_disk_selection_changed(current_index)

\* defrag_finished / defrag_error after the message box is dismissed.
defrag_end ==
    /\ app = "running" /\ mainpc = "loop" /\ dialogs # << >>
    /\ Top.d \in {"defrag_done", "defrag_failed"}
    /\ dialogs' = Pop
    /\ reset_ui
    /\ threads' = Collect(threads, 0, 0, queue, Pop)
    /\ UNCHANGED <<app, mainpc, queue, sel, area>>

\* The foreground event loop (the main one or a dialog's) delivers the
\* oldest queued signal to its slot.
Deliver ==
    /\ app = "running"
    /\ mainpc = "loop"
    /\ queue # << >>
    /\ queue' = Tail(queue)
    /\ LET e == Head(queue) IN
       CASE threads[e.t].kind = "check" /\ e.sig = "finished" -> display_defrag_score(e)
         [] threads[e.t].kind = "check" /\ IsError(e.sig) -> display_defrag_check_error(e)
         [] threads[e.t].kind = "defrag" /\ e.sig = "finished" -> defrag_finished(e)
         [] threads[e.t].kind = "defrag" /\ IsError(e.sig) -> defrag_error(e)


\* ------------------------------------------------------------ closeEvent
\* DiskDefragmenterApp.closeEvent up to its question box.
closeEvent ==
    /\ Interactive
    /\ LET is_worker_running == worker # 0 /\ isRunning(threads[worker])
           is_check_worker_running ==
               check_worker # 0 /\ isRunning(threads[check_worker])
       IN  IF is_worker_running \/ is_check_worker_running
           THEN /\ dialogs' = Push(Frame("close", 0, 0, is_worker_running,
                                         is_check_worker_running))
                /\ UNCHANGED app
           ELSE /\ app' = "closed"       \* event.accept()
                /\ UNCHANGED dialogs
    /\ UNCHANGED <<mainpc, queue, sel, area, ui, map, handles, threads>>

\* DefragWorker.terminate / QThread.terminate on thread t.
terminate(t) ==
    threads' = [threads EXCEPT ![t].is_running =
                    IF threads[t].kind = "defrag" THEN FALSE ELSE @,
                  ![t].killed = TRUE]

\* The question of closeEvent is answered No: event.ignore().
closeEvent_declined ==
    /\ InDialog("close")
    /\ dialogs' = Pop
    /\ UNCHANGED <<app, mainpc, queue, sel, area, ui, map, handles, threads>>

\* closeEvent from `if is_check_worker_running:` on.
close_check_worker ==
    IF Top.c
    THEN IF check_worker = 0
         THEN \* None.terminate(): AttributeError leaves closeEvent
              app' = "aborted" /\ UNCHANGED <<mainpc, threads>>
         ELSE terminate(check_worker) /\ mainpc' = "wait_check" /\ UNCHANGED app
    ELSE app' = "closed" /\ UNCHANGED <<mainpc, threads>>

\* The question of closeEvent is answered Yes.
closeEvent_confirmed ==
    /\ InDialog("close")
    /\ IF Top.w
       THEN IF worker = 0
            THEN app' = "aborted" /\ UNCHANGED <<mainpc, threads>>
            ELSE terminate(worker) /\ mainpc' = "wait_worker" /\ UNCHANGED app
       ELSE close_check_worker
    /\ UNCHANGED <<dialogs, queue, sel, area, ui, map, handles>>

\* self.worker.wait(5000) returns: the thread ended or the time ran out.
wait_worker_returns ==
    /\ app = "running"
    /\ mainpc = "wait_worker"
    /\ IF Top.c
       THEN close_check_worker
       ELSE app' = "closed" /\ mainpc' = "loop" /\ UNCHANGED threads
    /\ UNCHANGED <<dialogs, queue, sel, area, ui, map, handles>>

\* self.check_worker.wait(5000) returns; event.accept().
wait_check_returns ==
    /\ app = "running"
    /\ mainpc = "wait_check"
    /\ app' = "closed"
    /\ mainpc' = "loop"
    /\ UNCHANGED <<dialogs, queue, sel, area, ui, map, handles, threads>>

\* --------------------------------------------------- background threads
Live(t) == app = "running" /\ isRunning(threads[t])

\* The threads ths after one of them has ended.
Ended(ths) == Collect(ths, worker, check_worker, queue, dialogs)

Emit(t, sig, s, out) ==
    queue' = Append(queue, Event(sig, t, s, out))

\* DefragWorker.run: progress.emit(10); set_fragmentation_score(90)
DefragBegin(t) ==
    /\ Live(t)
    /\ threads[t].pc = "begin"
    /\ set_fragmentation_score(HighSeverityScore)
    /\ threads' = [threads EXCEPT ![t].progress = Append(@, 10),
                                  ![t].pc = "popen"]
    /\ UNCHANGED <<app, mainpc, dialogs, queue, sel, area, ui, handles>>

\* subprocess.Popen(command, ...): the process is launched, or Popen raises.
DefragPopen(t, launched) ==
    /\ Live(t)
    /\ threads[t].kind = "defrag"
    /\ threads[t].pc = "popen"
    /\ threads' = IF launched
                  THEN [threads EXCEPT ![t].process = TRUE,
                                       ![t].ext = "running",
                                       ![t].pc = "loop"]
                  ELSE [threads EXCEPT ![t].pc = "except"]
    /\ UNCHANGED <<app, mainpc, dialogs, queue, sel, area, ui, map, handles>>

\* The loop without the test of is_running.
DefragStep_NoCancelTest(t) ==
    /\ Live(t)
    /\ threads[t].pc = "loop"
    /\ threads' = [threads EXCEPT
                     ![t].progress = Append(@, 10 + threads[t].i * 8),
                     ![t].i = @ + 1,
                     ![t].pc = IF threads[t].i + 1 = ProgressSteps
                               THEN "communicate" ELSE "loop"]
    /\ UNCHANGED <<app, mainpc, dialogs, queue, sel, area, ui, map, handles>>

\* One iteration of `for i in range(10)`.
DefragStep(t) ==
    /\ Live(t)
    /\ threads[t].pc = "loop"
    /\ threads' =
         IF ~threads[t].is_running
         THEN [threads EXCEPT ![t].pc = "finally"]      \* return
         ELSE [threads EXCEPT
                 ![t].progress = Append(@, 10 + threads[t].i * 8),
                 ![t].i = @ + 1,
                 ![t].pc = IF threads[t].i + 1 = ProgressSteps
                           THEN "communicate" ELSE "loop"]
    /\ UNCHANGED <<app, mainpc, dialogs, queue, sel, area, ui, map, handles>>

\* DefragWorker.run that emits progress 100 whatever the exit status.
DefragCommunicate_Always100(t, raises, collected) ==
    /\ Live(t)
    /\ threads[t].kind = "defrag"
    /\ threads[t].pc = "communicate"
    /\ threads[t].ext \in {"exit0", "exit1"}
    /\ LET status == IF threads[t].ext = "exit0" THEN 0 ELSE 1
           sig == IF status = 0 THEN "finished" ELSE "error_status" IN
       IF raises
       THEN /\ threads' = [threads EXCEPT
                             ![t].returncode = IF collected THEN status ELSE @,
                             ![t].pc = "except"]
            /\ UNCHANGED queue
       ELSE /\ threads' = [threads EXCEPT ![t].returncode = status,
                                          ![t].progress = Append(@, 100),
                                          ![t].emitted = Append(@, sig),
                                          ![t].pc = "finally"]
            /\ Emit(t, sig, 0, << >>)
    /\ UNCHANGED <<app, mainpc, dialogs, sel, area, ui, map, handles>>

\* process.communicate() returns and the outcome is emitted; or it raises
\* (output that does not decode), with the exit status collected or not.
DefragCommunicate(t, raises, collected) ==
    /\ Live(t)
    /\ threads[t].kind = "defrag"
    /\ threads[t].pc = "communicate"
    /\ threads[t].ext \in {"exit0", "exit1"}
    /\ LET status == IF threads[t].ext = "exit0" THEN 0 ELSE 1 IN
       IF raises
       THEN /\ threads' = [threads EXCEPT
                             ![t].returncode = IF collected THEN status ELSE @,
                             ![t].pc = "except"]
            /\ UNCHANGED queue
       ELSE IF status = 0
       THEN /\ threads' = [threads EXCEPT ![t].returncode = 0,
                                          ![t].progress = Append(@, 100),
                                          ![t].emitted = Append(@, "finished"),
                                          ![t].pc = "finally"]
            /\ Emit(t, "finished", 0, << >>)
       ELSE /\ threads' = [threads EXCEPT ![t].returncode = status,
                                          ![t].emitted = Append(@, "error_status"),
                                          ![t].pc = "finally"]
            /\ Emit(t, "error_status", 0, << >>)
    /\ UNCHANGED <<app, mainpc, dialogs, sel, area, ui, map, handles>>

\* An exception handler that swallows the exception.
DefragExcept_Silent(t) ==
    /\ Live(t)
    /\ threads[t].pc = "except"
    /\ threads' = [threads EXCEPT ![t].pc = "finally"]
    /\ UNCHANGED <<app, mainpc, dialogs, queue, sel, area, ui, map, handles>>

\* except Exception as e: self.error.emit(...)
DefragExcept(t) ==
    /\ Live(t)
    /\ threads[t].pc = "except"
    /\ threads' = [threads EXCEPT ![t].emitted = Append(@, "error_unexpected"),
                                  ![t].pc = "finally"]
    /\ Emit(t, "error_unexpected", 0, << >>)
    /\ UNCHANGED <<app, mainpc, dialogs, sel, area, ui, map, handles>>

\* finally: the test, and the first half of whichever branch it takes.
\* isFinished() is evaluated by the thread itself, inside run.
DefragFinally(t) ==
    /\ Live(t)
    /\ threads[t].pc = "finally"
    /\ IF isFinished(threads[t])
       THEN FALSE
       ELSE IF ~threads[t].process
       THEN \* `process` is unbound: UnboundLocalError leaves run
            /\ threads' = [threads EXCEPT ![t].pc = "raised"]
            /\ app' = "aborted"
            /\ UNCHANGED map
       ELSE IF threads[t].returncode = 0
       THEN /\ set_fragmentation_score(0)
            /\ threads' = Ended([threads EXCEPT ![t].is_running = FALSE,
                                                ![t].pc = "done"])
            /\ UNCHANGED app
       ELSE \* the argument self.map_widget.fragmentation_score is read
            /\ threads' = [threads EXCEPT ![t].tmp = score,
                                          ![t].pc = "finally_write"]
            /\ UNCHANGED <<app, map>>
    /\ UNCHANGED <<mainpc, dialogs, queue, sel, area, ui, handles>>

\* finally, else branch: set_fragmentation_score(<the value read>)
DefragFinallyWrite(t) ==
    /\ Live(t)
    /\ threads[t].pc = "finally_write"
    /\ set_fragmentation_score(threads[t].tmp)
    /\ threads' = Ended([threads EXCEPT ![t].is_running = FALSE,
                                        ![t].pc = "done"])
    /\ UNCHANGED <<app, mainpc, dialogs, queue, sel, area, ui, handles>>

\* CheckDefragWorker.run: Popen launches the analyzer, or raises
\* FileNotFoundError or another exception (each handler emits error).
CheckPopen(t, how) ==
    /\ Live(t)
    /\ threads[t].kind = "check"
    /\ threads[t].pc = "popen"
    /\ IF how = "launched"
       THEN /\ threads' = [threads EXCEPT ![t].process = TRUE,
                                          ![t].ext = "running",
                                          ![t].pc = "communicate"]
            /\ UNCHANGED queue
       ELSE LET sig == IF how = "not_found" THEN "error_not_found"
                       ELSE "error_unexpected" IN
            /\ threads' = [threads EXCEPT ![t].emitted = Append(@, sig),
                                          ![t].pc = "return"]
            /\ Emit(t, sig, 0, << >>)
    /\ UNCHANGED <<app, mainpc, dialogs, sel, area, ui, map, handles>>

\* CheckDefragWorker.run without the test of process.returncode.
CheckCommunicate_NoStatusTest(t, stdout, raises) ==
    /\ Live(t)
    /\ threads[t].kind = "check"
    /\ threads[t].pc = "communicate"
    /\ threads[t].ext \in {"exit0", "exit1"}
    /\ LET status == IF threads[t].ext = "exit0" THEN 0 ELSE 1
           sig == IF raises \/ ParseRaises(stdout) THEN "error_unexpected"
                  ELSE "finished"
       IN  /\ threads' = [threads EXCEPT
                            ![t].returncode = IF raises THEN @ ELSE status,
                            ![t].emitted = Append(@, sig),
                            ![t].pc = "return"]
           /\ IF sig = "finished"
              THEN Emit(t, sig, ParseScore(stdout), stdout)
              ELSE Emit(t, sig, 0, << >>)
    /\ UNCHANGED <<app, mainpc, dialogs, sel, area, ui, map, handles>>

\* process.communicate() returns stdout; the score is parsed and the
\* outcome emitted.  communicate (output that does not decode) or int() may
\* raise: `except Exception` emits error.
CheckCommunicate(t, stdout, raises) ==
    /\ Live(t)
    /\ threads[t].kind = "check"
    /\ threads[t].pc = "communicate"
    /\ threads[t].ext \in {"exit0", "exit1"}
    /\ LET status == IF threads[t].ext = "exit0" THEN 0 ELSE 1
           sig == IF raises THEN "error_unexpected"
                  ELSE IF status # 0 THEN "error_status"
                  ELSE IF ParseRaises(stdout) THEN "error_unexpected"
                  ELSE "finished"
       IN  /\ threads' = [threads EXCEPT
                            ![t].returncode = IF raises THEN @ ELSE status,
                            ![t].emitted = Append(@, sig),
                            ![t].pc = "return"]
           /\ IF sig = "finished"
              THEN Emit(t, sig, ParseScore(stdout), stdout)
              ELSE Emit(t, sig, 0, << >>)
    /\ UNCHANGED <<app, mainpc, dialogs, sel, area, ui, map, handles>>

\* CheckDefragWorker.run returns and the thread ends.
CheckReturn(t) ==
    /\ Live(t)
    /\ threads[t].pc = "return"
    /\ threads' = Ended([threads EXCEPT ![t].pc = "done"])
    /\ UNCHANGED <<app, mainpc, dialogs, queue, sel, area, ui, map, handles>>

\* A thread on which terminate() was called is killed where it stands.
Killed(t) ==
    /\ Live(t)
    /\ threads[t].killed
    /\ threads' = Ended([threads EXCEPT ![t].pc = "terminated"])
    /\ UNCHANGED <<app, mainpc, dialogs, queue, sel, area, ui, map, handles>>

\* The external e4defrag process of thread t exits with the given status.
ExtExit(t, status) ==
    /\ threads[t].ext = "running"
    /\ threads' = [threads EXCEPT ![t].ext = IF status = 0 THEN "exit0" ELSE "exit1"]
    /\ UNCHANGED <<app, mainpc, dialogs, queue, sel, area, ui, map, handles>>

\* ------------------------------------------------------------------ Next
Next ==
    \/ \E j \in 0..(combo_count - 1) : Select(j)
    \/ start_analysis
    \/ start_analysis_launch
    \/ handler_returns
    \/ display_defrag_score_end
    \/ display_defrag_check_error_end
    \/ start_defrag
    \/ start_defrag_confirmed
    \/ start_defrag_launch
    \/ defrag_end
    \/ Deliver
    \/ closeEvent
    \/ closeEvent_declined
    \/ closeEvent_confirmed
    \/ wait_worker_returns
    \/ wait_check_returns
    \/ \E t \in Tids : DefragBegin(t)
    \/ \E t \in Tids, launched \in BOOLEAN : DefragPopen(t, launched)
    \/ \E t \in Tids : DefragStep(t)
    \/ \E t \in Tids, raises \in BOOLEAN, collected \in BOOLEAN :
           DefragCommunicate(t, raises, collected)
    \/ \E t \in Tids : DefragExcept(t)
    \/ \E t \in Tids : DefragFinally(t)
    \/ \E t \in Tids : DefragFinallyWrite(t)
    \/ \E t \in Tids, how \in {"launched", "not_found", "fault"} :
           CheckPopen(t, how)
    \/ \E t \in Tids, stdout \in Stdouts, raises \in BOOLEAN :
           CheckCommunicate(t, stdout, raises)
    \/ \E t \in Tids : CheckReturn(t)
    \/ \E t \in Tids : Killed(t)
    \/ \E t \in Tids, status \in {0, 1} : ExtExit(t, status)

Spec == Init /\ [][Next]_vars

\* Spec with the scheduling the two wait(5000) calls of closeEvent are sure
\* of: each returns, at the latest when its timeout has run out.
FairSpec ==
    /\ Spec
    /\ WF_vars(wait_worker_returns)
    /\ WF_vars(wait_check_returns)

\* FairSpec with, besides, the scheduling a task started from Idle runs under:
\* the operating system schedules every running thread, the event loop of
\* the foreground delivers every queued signal, every message box is
\* eventually answered, and the external process eventually exits.
LiveSpec ==
    /\ FairSpec
    /\ WF_vars(\E t \in Tids : DefragBegin(t))
    /\ WF_vars(\E t \in Tids, launched \in BOOLEAN : DefragPopen(t, launched))
    /\ WF_vars(\E t \in Tids : DefragStep(t))
    /\ WF_vars(\E t \in Tids, raises \in BOOLEAN, collected \in BOOLEAN :
                  DefragCommunicate(t, raises, collected))
    /\ WF_vars(\E t \in Tids : DefragExcept(t))
    /\ WF_vars(\E t \in Tids : DefragFinally(t))
    /\ WF_vars(\E t \in Tids : DefragFinallyWrite(t))
    /\ WF_vars(\E t \in Tids, how \in {"launched", "not_found", "fault"} :
                  CheckPopen(t, how))
    /\ WF_vars(\E t \in Tids, stdout \in Stdouts, raises \in BOOLEAN :
                  CheckCommunicate(t, stdout, raises))
    /\ WF_vars(\E t \in Tids : CheckReturn(t))
    /\ WF_vars(\E t \in Tids, status \in {0, 1} : ExtExit(t, status))
    /\ WF_vars(Deliver)
    /\ WF_vars(start_analysis_launch)
    /\ WF_vars(start_defrag_launch)
    /\ WF_vars(display_defrag_score_end)
    /\ WF_vars(display_defrag_check_error_end)
    /\ WF_vars(defrag_end)
    /\ WF_vars(closeEvent_declined)

\* ------------------------------------------------ the Score Parser alone
\* The kinds of line the parser is run on: score lines, the no-fragmentation
\* line, a line with neither marker, the score marker without an integer
\* after it, both markers in one line, a score too long for int().
ParserLines ==
    { ScoreLine(0), ScoreLine(42), ScoreLine(150), NoFragLine, <<TX>>,
      <<FS, TX>>, <<NF, SP, FS, SP, 7>>, ScoreLine(BIG) }
ParserInputs == UNION { [1..n -> ParserLines] : n \in 0..MaxLines }

\* An Analysis Task on the first device, its analyzer having exited with
\* status zero, is about to read the output.
ParserInit ==
    /\ app = "running"
    /\ mainpc = "loop"
    /\ dialogs = << >>
    /\ queue = << >>
    /\ disks = <<"ext4", "vfat">>
    /\ combo_count = 2
    /\ current_index = 0
    /\ analyze_enabled = FALSE
    /\ defrag_enabled = FALSE
    /\ combo_enabled = FALSE
    /\ score = UnknownScore
    /\ worker = 0
    /\ check_worker = 1
    /\ threads = << [NewThread("check", UnknownScore) EXCEPT
                       !.pc = "communicate", !.process = TRUE,
                       !.ext = "exit0"] >>
    /\ width = MapWidth
    /\ height = MapHeight
    /\ cols = generate_dummy_map_data(width, height, UnknownScore, "keep").cols
    /\ rows = generate_dummy_map_data(width, height, UnknownScore, "keep").rows
    /\ disk_map_data =
          generate_dummy_map_data(width, height, UnknownScore, "keep").data

ParserNext == \E stdout \in ParserInputs : CheckCommunicate(1, stdout, FALSE)

ParserSpec == ParserInit /\ [][ParserNext]_vars

\* ------------------------------------------------ the disk map alone
\* The drawable areas and the scores the map is rendered for.
GridWidths == {-5, 0, 5, 10, 20, 30, 40, 50, 60, 70, 80, 90, 100}
GridHeights == {-5, 0, 5, 10, 20, 100}
GridScores == {-1, 0, 15, 30, 31, 55, 56, 100, 150}

\* The window is up, no task has run; the map has some drawable area.
GridInit ==
    /\ app = "running"
    /\ mainpc = "loop"
    /\ dialogs = << >>
    /\ queue = << >>
    /\ disks = << >>
    /\ combo_count = 0
    /\ current_index = -1
    /\ analyze_enabled = FALSE
    /\ defrag_enabled = FALSE
    /\ combo_enabled = TRUE
    /\ score = UnknownScore
    /\ worker = 0
    /\ check_worker = 0
    /\ threads = << >>
    /\ width \in GridWidths
    /\ height \in GridHeights
    /\ cols = generate_dummy_map_data(width, height, UnknownScore, "keep").cols
    /\ rows = generate_dummy_map_data(width, height, UnknownScore, "keep").rows
    /\ disk_map_data =
          generate_dummy_map_data(width, height, UnknownScore, "keep").data

\* DiskMapWidget.resizeEvent: the drawable area becomes w x h.
resizeEvent(w, h) ==
    /\ app = "running"
    /\ width' = w
    /\ height' = h
    /\ \E how \in Shuffles :
          SetGrid(generate_dummy_map_data(w, h, score, how))
    /\ UNCHANGED <<app, mainpc, dialogs, queue, sel, ui, score, handles,
                   threads>>

\* The map is rendered for the score s.
RenderScore(s) ==
    /\ app = "running"
    /\ set_fragmentation_score(s)
    /\ UNCHANGED <<app, mainpc, dialogs, queue, sel, area, ui, handles,
                   threads>>

GridNext ==
    \/ \E w \in GridWidths, h \in GridHeights : resizeEvent(w, h)
    \/ \E s \in GridScores : RenderScore(s)

GridSpec == GridInit /\ [][GridNext]_vars

\* The cells of the grid, and how many of them are of category cat.
Cells == {ij \in (1..Len(disk_map_data)) \X (1..cols) : TRUE}
CountCells(cat) ==
    Cardinality({ij \in Cells : disk_map_data[ij[1]][ij[2]] = cat})

\* ------------------------------------------------- derived notions
\* The controller has finished handling the terminal outcome of thread t.
Handled(t) ==
    /\ threads[t].kind = "deleted" \/ threads[t].emitted # << >>
    /\ \A k \in 1..Len(queue) : queue[k].t # t
    /\ \A k \in 1..Len(dialogs) : dialogs[k].t # t

HasFrame(d) == \E k \in 1..Len(dialogs) : dialogs[k].d = d

\* The Operation State of the controller.
Analyzing ==
    \/ HasFrame("analysis_starting")
    \/ \E t \in Tids : threads[t].kind = "check" /\ ~Handled(t)
Defragging ==
    \/ HasFrame("defrag_starting")
    \/ \E t \in Tids : threads[t].kind = "defrag" /\ ~Handled(t)
Idle == ~Analyzing /\ ~Defragging

\* The background tasks whose thread is running.
LiveTasks == {t \in Tids : isRunning(threads[t])}

\* Sanity: the paths the enabled buttons rule out.
NoWarningBox == ~HasFrame("analysis_warning") /\ ~HasFrame("defrag_warning")
ControlsIffIdle == Interactive => (combo_enabled <=> Idle)
OneUnhandled == Cardinality({t \in Tids : ~Handled(t)}) <= 1
TypeOK ==
    /\ app \in {"running", "closed", "aborted"}
    /\ mainpc \in {"loop", "wait_worker", "wait_check"}
    /\ worker \in 0..Len(threads)
    /\ check_worker \in 0..Len(threads)
    /\ Len(threads) <= MaxTasks
    /\ Len(dialogs) <= 2


\* =================================================================== claims

\* C1: at most one background task (Analysis Task or Defragmentation Task)
\* is live at any time: a second task is never started while the thread of an
\* earlier one is still running.
C1_AtMostOneLiveTask == Cardinality(LiveTasks) <= 1

\* ---- C2
\* A step that creates and starts a DefragWorker.
DefragLaunched ==
    /\ Len(threads') = Len(threads) + 1
    /\ threads'[Len(threads')].kind = "defrag"

\* A step in which start_defrag returns without proceeding: its warning, or
\* its question that was not answered Yes, is closed.
DefragNotProceeding ==
    /\ dialogs # << >>
    /\ Top.d \in {"defrag_warning", "defrag_confirm"}
    /\ dialogs' = Pop

\* The selected device exists and is EXT4.
EligibleSelection == ~InvalidSelection /\ SelectedFsType = "ext4"

\* C2: a Defragmentation Task is launched only for a request made while the
\* controller is Idle, on an eligible (EXT4) device, and after the user
\* answered Yes to the confirmation; whenever the request does not proceed,
\* nothing changes: no control, no score, no handle, no task, no process.
C2_DefragOnlyIdleEligibleConfirmed ==
    [][ /\ (HasFrame("defrag_confirm")' /\ ~HasFrame("defrag_confirm"))
              => (Interactive /\ Idle /\ EligibleSelection)
        /\ (HasFrame("defrag_starting")' /\ ~HasFrame("defrag_starting"))
              => (InDialog("defrag_confirm") /\ Idle /\ EligibleSelection)
        /\ DefragLaunched
              => /\ InDialog("defrag_starting")
                 /\ EligibleSelection
                 /\ ~Analyzing
                 /\ \A t \in Tids : Handled(t)
        /\ DefragNotProceeding
              => UNCHANGED <<app, mainpc, queue, sel, area, ui, map, handles,
                             threads>>
      ]_vars

\* A confirmed request has started its DefragWorker.
C2_Witness ==
    /\ worker # 0
    /\ threads[worker].kind = "defrag"
    /\ threads[worker].pc = "begin"
    /\ ~combo_enabled

\* ---- C3, C4
\* Task t is over: its thread has ended and the controller has finished
\* handling its outcome.
Over(t) == isFinished(threads[t]) /\ Handled(t)

\* C3: once a Defragmentation Task that reported success is over (its own
\* last score update and the controller's success handler have both
\* completed, in either order), the displayed score is 0.
C3_ScoreZeroAfterSuccess ==
    [][\A t \in Tids :
         ( /\ threads[t].kind = "defrag"
           /\ threads[t].emitted = <<"finished">>
           /\ ~Over(t)
           /\ Over(t)' )
         => score' = 0]_vars

\* C4: once a Defragmentation Task that reported failure is over, the
\* displayed score is the one shown before the operation was requested.
C4_ScoreRestoredAfterFailure ==
    [][\A t \in Tids :
         ( /\ threads[t].kind = "defrag"
           /\ Len(threads[t].emitted) = 1
           /\ IsError(threads[t].emitted[1])
           /\ ~Over(t)
           /\ Over(t)' )
         => score' = threads[t].pre_score]_vars

DefragRunEnding == {"finally", "finally_write", "done", "raised"}

\* C6: every Defragmentation Task delivers exactly one terminal outcome:
\* whenever its run has returned (early on cancellation or after a failed
\* launch included), exactly one of finished/error has been emitted.
C6_ExactlyOneOutcome ==
    \A t \in Tids : threads[t].kind = "defrag" =>
        /\ Len(threads[t].emitted) <= 1
        /\ threads[t].pc \in DefragRunEnding => Len(threads[t].emitted) = 1

\* C6 (amended): every Defragmentation Task delivers at most one terminal
\* outcome, never both finished and error and never one twice.  When its run
\* ends after the external process was awaited or after launching it raised,
\* exactly one of finished/error has been emitted; when it returns early
\* because cancellation was requested, none has been emitted.
C6_AtMostOneOutcome ==
    \A t \in Tids : threads[t].kind = "defrag" =>
        LET th == threads[t] IN
        /\ Len(th.emitted) <= 1
        /\ th.pc \in DefragRunEnding =>
              Len(th.emitted) =
                 IF th.process /\ th.i < ProgressSteps THEN 0 ELSE 1
        /\ (th.pc \in DefragRunEnding /\ th.emitted = << >>) => th.killed

\* A Defragmentation Task ran all its steps, reported success and ended.
C6_Witness ==
    \E t \in Tids :
        /\ threads[t].kind = "defrag"
        /\ threads[t].pc = "done"
        /\ threads[t].i = ProgressSteps
        /\ threads[t].emitted = <<"finished">>

\* ---- C7
\* A step in which defrag_finished / defrag_error runs reset_ui.
ResetUiStep ==
    /\ dialogs # << >>
    /\ Top.d \in {"defrag_done", "defrag_failed"}
    /\ dialogs' = Pop

\* C7: on_disk_selection_changed sets the score to -1, enables the analysis
\* trigger iff the selected index is valid and its device is ext4, disables
\* the defragmentation trigger, and leaves the task handles and every running
\* task unchanged.
C7_SelectionChanged ==
    [][ /\ (current_index' # current_index \/ ResetUiStep) =>
              /\ score' = UnknownScore
              /\ analyze_enabled' = EligibleSelection'
              /\ defrag_enabled' = FALSE
        /\ (current_index' # current_index) =>
              UNCHANGED <<worker, check_worker, threads, queue>>
      ]_vars

\* An ineligible device was selected while the thread of an earlier task was
\* still running.
C7_Witness ==
    /\ Interactive
    /\ current_index = 1
    /\ ~EligibleSelection
    /\ ~analyze_enabled
    /\ score = UnknownScore
    /\ LiveTasks # {}

\* ---- C8
\* A step that completes display_defrag_score.
AnalysisSuccessHandled ==
    /\ dialogs # << >>
    /\ Top.d = "analysis_result"
    /\ dialogs' = Pop

\* A step that delivers success(s) of an Analysis Task with s >= 0.
KnownScoreDelivered ==
    /\ queue # << >>
    /\ queue' = Tail(queue)
    /\ threads[Head(queue).t].kind = "check"
    /\ Head(queue).sig = "finished"
    /\ Head(queue).s >= 0

\* C8: when an Analysis Task completes with success(s), the controller
\* returns to Idle with device switching and the analysis trigger enabled, the
\* score becomes s, and the defragmentation trigger is enabled iff s >= 0; the
\* defragmentation trigger never becomes enabled except by an analysis that
\* yields s >= 0.
C8_AnalysisSuccess ==
    [][ /\ AnalysisSuccessHandled =>
              /\ Idle'
              /\ combo_enabled'
              /\ analyze_enabled'
              /\ score' = Top.s
              /\ defrag_enabled' <=> (Top.s >= 0)
        /\ (defrag_enabled' /\ ~defrag_enabled) => KnownScoreDelivered
      ]_vars

\* The controller is Idle again after an analysis that yielded 62.
C8_Witness ==
    /\ Interactive
    /\ Idle
    /\ score = 62
    /\ defrag_enabled
    /\ analyze_enabled
    /\ combo_enabled

\* ---- C9
\* Thread t has emitted a failure event.
Failed(t) ==
    /\ Len(threads[t].emitted) = 1
    /\ IsError(threads[t].emitted[1])

\* A step that completes the handler of a failure event.
FailureHandled ==
    /\ dialogs # << >>
    /\ Top.d \in {"analysis_error", "defrag_failed"}
    /\ dialogs' = Pop

\* C9: every task failure event returns the controller to Idle with device
\* switching and the analysis trigger re-enabled, and starts no task: the
\* program never stops with a failure event it has not handled.
C9_FailureReturnsToIdle ==
    [][ /\ FailureHandled =>
              /\ Idle'
              /\ combo_enabled'
              /\ analyze_enabled'
              /\ Len(threads') = Len(threads)
        /\ (app' = "aborted") =>
              \A t \in Tids : Failed(t) => Handled(t)
      ]_vars

\* ---- C10
\* A step in which the close request is accepted.
ShutdownProceeds == app = "running" /\ app' = "closed"

\* A step in which closeEvent asks for the confirmation.
CloseQuestionOpens == HasFrame("close")' /\ ~HasFrame("close")

\* A step in which the confirmation of closeEvent is declined.
CloseDeclined ==
    /\ dialogs # << >>
    /\ Top.d = "close"
    /\ dialogs' = Pop

\* C10: a shutdown request proceeds without confirmation when no task is
\* running; while a task is running it proceeds only after the confirmation
\* was asked and answered Yes; a declined confirmation changes nothing: the
\* operation state, the handles and the running task stay as they were.
C10_ShutdownArbitration ==
    [][ /\ LiveTasks = {} => ~CloseQuestionOpens
        /\ (ShutdownProceeds /\ LiveTasks # {}) => HasFrame("close")
        /\ CloseDeclined =>
              UNCHANGED <<app, mainpc, queue, sel, area, ui, map, handles, threads>>
      ]_vars

\* ---- C12
\* A score line carrying an integer.
IsScoreLine(line) ==
    /\ Len(line) = 4
    /\ line[1] = SP /\ line[2] = FS /\ line[3] = SP
    /\ IsDigits(line[4])

\* The lines C12 speaks of.
PlainLine(line) == IsScoreLine(line) \/ line = NoFragLine \/ line = <<TX>>

\* The result C12 states for lines.
StatedScore(lines) ==
    LET scored == {k \in 1..Len(lines) : IsScoreLine(lines[k])} IN
    IF scored # {}
    THEN lines[CHOOSE k \in scored : \A j \in scored : j <= k][4]
    ELSE IF \E k \in 1..Len(lines) : lines[k] = NoFragLine THEN 0
    ELSE UnknownScore

\* C12: on every sequence of score lines, no-fragmentation lines and lines
\* with neither marker, the Score Parser returns the integer of the last
\* score line, else 0 if there is a no-fragmentation line, else -1; it always
\* returns an integer and never raises.
C12_ParserResult ==
    /\ \A t \in Tids :
          (threads[t].kind = "check" /\ threads[t].returncode = 0) =>
              threads[t].emitted # <<"error_unexpected">>
    /\ \A k \in 1..Len(queue) :
          ( /\ queue[k].sig = "finished"
            /\ \A j \in 1..Len(queue[k].out) : PlainLine(queue[k].out[j]) )
          => queue[k].s = StatedScore(queue[k].out)

\* ---- C13
\* The scan C13 states: the no-fragmentation rule is off from the first line
\* that contains the score marker, whether or not an integer follows it.
StatedScanLine(st, line) ==
    LET m == ScoreMatch(line)
        sc == IF HasScoreMarker(line) /\ m # NoMatch THEN m ELSE st[1]
        seen == st[2] \/ HasScoreMarker(line)
    IN  IF HasNoFragMarker(line) /\ ~seen THEN <<0, seen>> ELSE <<sc, seen>>

RECURSIVE StatedScanLines(_, _, _)
StatedScanLines(st, lines, k) ==
    IF k > Len(lines) THEN st
    ELSE StatedScanLines(StatedScanLine(st, lines[k]), lines, k + 1)

\* C13: a no-fragmentation line sets the score to 0 only if no earlier line,
\* nor the same line, contained the score marker, even when no integer
\* followed the marker.
C13_NoFragOnlyBeforeMarker ==
    \A k \in 1..Len(queue) :
        queue[k].sig = "finished" =>
            queue[k].s =
               StatedScanLines(<<UnknownScore, FALSE>>, queue[k].out, 1)[1]

\* ---- C14
\* C14: in every reachable state the score held by the visualization is an
\* integer in -1..100.
C14_ScoreInRange == score \in -1..100

\* ---- C15
\* C15: the grid has floor(H/e) rows of exactly floor(W/e) cells each; it is
\* empty when W or H is non-positive or either dimension floors to zero; when
\* the score is -1 every cell is unknown.
C15_GridShape ==
    LET c == width \div block_size
        r == height \div block_size
    IN  /\ (width <= 0 \/ height <= 0 \/ c = 0 \/ r = 0) =>
              disk_map_data = << >>
        /\ (width > 0 /\ height > 0 /\ c > 0 /\ r > 0) =>
              /\ Len(disk_map_data) = r
              /\ \A i \in 1..r : Len(disk_map_data[i]) = c
              /\ rows = r /\ cols = c
        /\ score = UnknownScore =>
              \A ij \in Cells : disk_map_data[ij[1]][ij[2]] = "unknown"

\* A grid of 10 rows of 9 cells rendered for a known score.
C15_Witness ==
    /\ width = 90 /\ height = 100
    /\ Len(disk_map_data) = 10
    /\ Len(disk_map_data[1]) = 9
    /\ score = 56

\* ---- C16
\* The ratio C16 states for score s, in tenths.
StatedTenths(s) ==
    IF s = 0 THEN 0
    ELSE IF s <= 30 THEN 1
    ELSE IF s <= 55 THEN 4
    ELSE 7

\* C16: for a non-empty grid of T cells and a score s >= 0 the counts depend
\* on (s, T) only: fragmented = floor(T*r), empty = floor(T/10), metadata =
\* unmovable = floor(T/20), non_fragmented = the rest (at least 0), and the
\* counts of all categories sum to T.
C16_CountsByFormula ==
    (disk_map_data # << >> /\ score >= 0) =>
        LET T == rows * cols
            f == (T * StatedTenths(score)) \div 10
            e == T \div 10
            m == T \div 20
            rest == T - f - e - m - m
        IN  /\ CountCells("fragmented") = f
            /\ CountCells("empty") = e
            /\ CountCells("metadata") = m
            /\ CountCells("unmovable") = m
            /\ CountCells("non_fragmented") = IF rest < 0 THEN 0 ELSE rest
            /\ CountCells("fragmented") + CountCells("empty")
                 + CountCells("metadata") + CountCells("unmovable")
                 + CountCells("non_fragmented") + CountCells("unknown") = T

\* ---- C17
\* The fragmented count outweighs the non_fragmented count and is at least
\* 0.6 times the fragmented count of every score in 1..30 on this grid size.
FragmentedDominates ==
    /\ CountCells("fragmented") > CountCells("non_fragmented")
    /\ \A s1 \in 1..30 :
          10 * CountCells("fragmented")
             >= 6 * IntOfProduct(rows * cols, fragmented_ratio(s1))

ReturnedEarly(th) ==
    /\ th.kind = "defrag"
    /\ th.pc \in DefragRunEnding
    /\ th.process
    /\ th.i < ProgressSteps

\* A step of thread t itself (not the exit of its process, not its killing).
OwnStep(t) ==
    /\ threads'[t] # threads[t]
    /\ threads'[t].kind = threads[t].kind
    /\ threads'[t].ext = threads[t].ext
    /\ threads'[t].killed = threads[t].killed
    /\ threads'[t].pc # "terminated"

\* C18: a Defragmentation Task whose is_running was cleared before one of
\* the ten per-step checks exits at that check: it emits neither that nor any
\* later progress event nor an outcome, neither awaits nor terminates the
\* launched process (which may outlive the task), and does not force the
\* score to 0: its finally block writes back the score it reads.
C18_CancelAtStep ==
    [][\A t \in Tids :
         /\ ( /\ threads[t].kind = "defrag"
              /\ threads[t].pc = "loop"
              /\ ~threads[t].is_running
              /\ OwnStep(t) )
            => /\ threads'[t].pc = "finally"
               /\ threads'[t].progress = threads[t].progress
               /\ threads'[t].emitted = << >>
               /\ threads'[t].returncode = -1
               /\ score' = score
         /\ (ReturnedEarly(threads[t]) /\ OwnStep(t))
            => /\ threads'[t].progress = threads[t].progress
               /\ Len(threads[t].progress) = 1 + threads[t].i
               /\ threads'[t].emitted = << >>
               /\ threads'[t].returncode = -1
               /\ threads[t].pc = "finally" =>
                     (threads'[t].pc = "finally_write" /\ score' = score)
               /\ threads[t].pc = "finally_write" =>
                     (threads'[t].pc = "done" /\ score' = threads[t].tmp)
      ]_vars

\* A cancelled task has ended without an outcome, its process still running,
\* the score not 0.
C18_Witness ==
    \E t \in Tids :
        /\ threads[t].kind = "defrag"
        /\ threads[t].pc = "done"
        /\ threads[t].i < ProgressSteps
        /\ threads[t].emitted = << >>
        /\ threads[t].ext = "running"
        /\ score # 0

\* ---- C19
\* C19: in every Defragmentation Task run the 'starting' progress event and
\* the forcing of the score to 90 happen before the external process is
\* launched; when the launch fails, the failure outcome is still delivered to
\* the controller: the program does not stop with it undelivered.
C19_StartThenLaunchFailureDelivered ==
    [][\A t \in Tids : threads[t].kind = "defrag" =>
         /\ (threads[t].pc = "begin" /\ OwnStep(t))
            => /\ threads'[t].pc = "popen"
               /\ threads'[t].progress = <<10>>
               /\ threads'[t].ext = "none"
               /\ score' = HighSeverityScore
         /\ (threads[t].ext = "none" /\ threads'[t].ext # "none")
            => /\ threads[t].pc = "popen"
               /\ threads[t].progress = <<10>>
         /\ (app' = "aborted" /\ ~threads[t].process /\ Failed(t))
            => \A k \in 1..Len(queue) : queue[k].t # t
      ]_vars

\* ---- C20
\* The progress events of every Defragmentation Task so far are well formed.
ProgressWellFormed ==
    \A t \in Tids : threads[t].kind = "defrag" =>
        LET p == threads[t].progress
            n == Len(threads[t].progress) IN
        /\ \A k \in 1..n : p[k] \in 0..100
        /\ \A k \in 1..(n - 1) : p[k] <= p[k + 1]
        /\ n >= 1 => p[1] = 10
        /\ n >= 2 => threads[t].process
        /\ \A k \in 1..n : (1 < k /\ k <= ProgressSteps + 1) =>
                              p[k] = 10 + (k - 2) * 8
        /\ n <= ProgressSteps + 2
        /\ \A k \in 1..n : p[k] = 100 =>
              /\ k = ProgressSteps + 2
              /\ threads[t].returncode = 0
              /\ threads[t].ext = "exit0"
        /\ threads[t].emitted = <<"finished">> =>
              (n = ProgressSteps + 2 /\ p[n] = 100)

\* C20: the progress events of a Defragmentation Task are non-decreasing
\* values in 0..100: the starting value, then the ten synthetic steps after
\* the launch; 100 is emitted only when the exit status is zero and not after
\* the success outcome; no progress event follows a terminal outcome.
C20_ProgressSequence ==
    [][ /\ ProgressWellFormed'
        /\ \A t \in Tids :
              (threads[t].kind = "defrag" /\ threads[t].emitted # << >>
                 /\ threads'[t].kind = "defrag")
              => threads'[t].progress = threads[t].progress
      ]_vars

\* A Defragmentation Task has emitted all twelve progress values and success.
C20_Witness ==
    \E t \in Tids :
        /\ threads[t].kind = "defrag"
        /\ Len(threads[t].progress) = ProgressSteps + 2
        /\ threads[t].progress[ProgressSteps + 2] = 100
        /\ threads[t].emitted = <<"finished">>

\* ---- C11
\* A step in which the question of closeEvent is answered Yes.
CloseConfirmed ==
    /\ InDialog("close")
    /\ UNCHANGED <<dialogs, queue>>
    /\ \A t \in Tids : /\ threads'[t].pc = threads[t].pc
                       /\ threads'[t].ext = threads[t].ext
    /\ <<app, mainpc>>' # <<app, mainpc>>

\* closeEvent is inside one of its wait(5000) calls.
CloseWaiting == app = "running" /\ mainpc \in {"wait_worker", "wait_check"}

\* C11: when the shutdown request made while a task was running is
\* confirmed, cancellation is requested on a task (terminate is called) and
\* the program goes on; from then on the close event is eventually accepted,
\* whether or not the task ends or its external process exits.
C11_ConfirmedShutdownProceeds ==
    /\ [][CloseConfirmed =>
            /\ app' = "running"
            /\ \E t \in Tids : threads'[t].killed /\ ~threads[t].killed
         ]_vars
    /\ CloseWaiting ~> (app = "closed")

\* ---- C21
\* A step in which the run of a background thread advances.
BackgroundStep ==
    \E t \in Tids :
        /\ isRunning(threads[t])
        /\ threads'[t].pc # threads[t].pc

\* C21: the fragmentation score and the grid are changed only by the
\* foreground controller (handling a task completion event, or resetting on
\* a device selection): no step of a running background task changes them.
C21_ForegroundOnlyWrites ==
    [][BackgroundStep => UNCHANGED map]_vars

\* ---- C22
\* The close request was accepted, or its confirmation was given: closeEvent
\* is in one of its waits, or it stopped the program itself (no run of a
\* thread raised).
ShutdownConfirmed ==
    \/ app = "closed"
    \/ mainpc # "loop"
    \/ app = "aborted" /\ \A t \in Tids : threads[t].pc # "raised"

\* The controller is back in Idle with device switching and the analysis
\* trigger enabled.
IdleReenabled == Idle /\ combo_enabled /\ analyze_enabled

\* C22: whenever the controller is in Analyzing or Defragging, then, the
\* external process eventually exiting or failing to launch and no shutdown
\* being confirmed, it is eventually in Idle with the device selector and
\* the analysis trigger enabled.
C22_ReturnsToIdle ==
    (Analyzing \/ Defragging) ~> (IdleReenabled \/ ShutdownConfirmed)

\* ---- C23
\* C23: whenever closeEvent, its question answered Yes, requests the
\* cancellation of a task it found running, the handle it calls terminate on
\* is not None: self.worker when the DefragWorker was running, otherwise
\* self.check_worker.
C23_HandleNotNoneAtCancellation ==
    [][CloseConfirmed =>
          /\ Top.w => worker # 0
          /\ (~Top.w /\ Top.c) => check_worker # 0
      ]_vars

\* ---- C24
\* A step in which the defragmentation trigger becomes enabled.
DefragTriggerEnabled == ~defrag_enabled /\ defrag_enabled'

\* A step that ends the handling of a defragmentation outcome (reset_ui) or
\* changes the selected device.
DefragOrSelectionDone == ResetUiStep \/ current_index' # current_index

\* C24: the defragmentation trigger is enabled only if no task is running
\* and the selected device is ext4; it becomes enabled only by the delivery of
\* an analysis success with score >= 0, and is disabled after every
\* defragmentation outcome and every device selection.
C24_DefragTriggerEnabledOnly ==
    [][ /\ defrag_enabled' => (LiveTasks' = {} /\ EligibleSelection')
        /\ DefragTriggerEnabled => KnownScoreDelivered
        /\ DefragOrSelectionDone => ~defrag_enabled'
      ]_vars

\* ---- C25
\* C25: for every score s >= 0 and every non-empty grid, no cell of the
\* generated grid is unknown (non_fragmented takes whatever the other four
\* categories leave, so nothing remains to be filled); unknown cells appear
\* only when the score is -1, and then every cell is unknown.
C25_NoUnknownForKnownScore ==
    /\ (score >= 0 /\ rows * cols > 0) =>
          /\ CountCells("unknown") = 0
          /\ Cardinality(Cells) = rows * cols
    /\ CountCells("unknown") > 0 =>
          /\ score = UnknownScore
          /\ CountCells("unknown") = rows * cols

\* A grid whose size is no multiple of 20 (every rounded count loses a
\* fraction) rendered for a known score.
C25_Witness ==
    /\ rows * cols = 9
    /\ score = 31
    /\ CountCells("non_fragmented") = 6
    /\ CountCells("fragmented") = 3

====
